---- MODULE Spec2Model ----
(***************************************************************************)
(* Row-wise dynamic-programming stereo matcher of StereoAlgorithm.py:      *)
(* createDisparityMap builds, for every scanline, a cost matrix and a      *)
(* direction matrix, walks the direction matrix backwards from (N, N),     *)
(* writes one disparity per matched pair into both maps and finally        *)
(* rescales both maps to the byte range.                                   *)
(*                                                                         *)
(* Numbers.  Costs are float64 in the code.  The model keeps every cost    *)
(* as an integer count of 1/variance units (sixteenths), so the matching   *)
(* cost pow(z1 - z2, 2) / variance is (z1 - z2)^2 units and an occlusion   *)
(* cost of 0.5 is 8 units.  This is exact for occlusion costs that are     *)
(* multiples of 1/16, the only ones the model draws: on them float64 adds  *)
(* and compares without rounding.  The rescale of the maps is rounded as   *)
(* float64 rounds it (see Rescale).                                        *)
(*                                                                         *)
(* Memory.  createDisparityMap is compiled with nb.njit, which performs no *)
(* bounds checking: an index past the end of a row addresses the flat,     *)
(* C-contiguous buffer of the array.  Images and maps are therefore flat   *)
(* sequences.  An access inside the buffer always succeeds; an access      *)
(* outside the buffer is undefined behaviour and is a choice between its   *)
(* outcomes (see Store, RightRows and the Fault actions).                  *)
(***************************************************************************)
EXTENDS Integers, Sequences, FiniteSets

VARIABLES leftImage, rightImage, occlusionCost, pc, rowNo, leftRow, rightRow,
          costMatrix, directionMatrix, i, j, leftDisparityMap,
          rightDisparityMap, emitted, fault

vars == <<leftImage, rightImage, occlusionCost, pc, rowNo, leftRow, rightRow,
          costMatrix, directionMatrix, i, j, leftDisparityMap,
          rightDisparityMap, emitted, fault>>

(***************************************************************************)
(* Bounds and input sets                                                   *)
(***************************************************************************)
\* The left image has at most MaxPixels pixels ...
MaxPixels == 4

\* ... and at most MaxCols columns.
MaxCols == 3

\* variance = 16
variance == 16

\* Grey levels of the left image.  Their difference d = 8 gives a matching
\* cost of d^2 = 64 units (4.0).
LeftIntensity == {10, 18}

\* Grey levels of the right image: one more, at d = 4 (16 units, 1.0) from
\* both levels of the left.
Intensity == LeftIntensity \cup {14}

\* What a read outside an image's buffer can return: any byte.
Byte == 0..255

\* Three of the occlusion costs round(i, 1), i in arange(0.5, 5, 0.25), that
\* __main__ passes: 0.5, 2.0 and 4.5, in 1/variance units.  With 0.5 two
\* skips (1.0) tie with a match at d = 4 and beat one at d = 8 (4.0), with
\* 2.0 they tie with a match at d = 8, with 4.5 every match wins.
OcclusionCosts == {variance \div 2, 2 * variance, (9 * variance) \div 2}

Shapes == {s \in (1..MaxPixels) \X (1..MaxCols) : s[1] * s[2] <= MaxPixels}

\* np.ndarray of shape (rows, cols), C-contiguous: pixel (r, c), both from 0,
\* is px[r * cols + c + 1].
ImagesOf(s, levels) == [rows : {s[1]}, cols : {s[2]}, px : [1..(s[1] * s[2]) -> levels]]

Images == UNION {ImagesOf(s, LeftIntensity) : s \in Shapes}

ConstantImage(s, v) == [rows |-> s[1], cols |-> s[2], px |-> [k \in 1..(s[1] * s[2]) |-> v]]

SameShape(a, b) == a.rows = b.rows /\ a.cols = b.cols

\* Right images handed in with a left image: every image of the same shape,
\* and a constant image with one column more and with one column less.
RightImagesFor(left) ==
    ImagesOf(<<left.rows, left.cols>>, Intensity)
        \cup {ConstantImage(<<left.rows, c>>, 10) :
                  c \in {left.cols - 1, left.cols + 1} \ {0}}

(***************************************************************************)
(* Helpers                                                                 *)
(***************************************************************************)
Min3(a, b, c) == IF a <= b /\ a <= c THEN a ELSE IF b <= c THEN b ELSE c

Abs(x) == IF x < 0 THEN -x ELSE x

\* map.max() of a map of one cell or more
SeqMax(s) == CHOOSE x \in {s[k] : k \in 1..Len(s)} : \A k \in 1..Len(s) : s[k] <= x

\* leftImage.shape[0], leftImage.shape[1]
rowCount == leftImage.rows
columnCount == leftImage.cols

\* leftImage[rowNo]
LeftRowOf(img, r) == [c \in 1..img.cols |-> img.px[r * img.cols + c]]

\* rightImage[rowNo][0 .. n-1] where every read stays in the buffer: position
\* c-1 of row r is address r * cols + (c - 1) of the flat buffer, whatever
\* the width n the caller reads (undefined outside the buffer).
RightRowOf(img, r, n) == [c \in 1..n |-> img.px[r * img.cols + c]]

\* The values rightImage[rowNo][0 .. n-1] can read as.  Inside the buffer
\* the read returns the pixel at its address (of this row or, past the
\* row's end, of a later one), outside the buffer it returns whatever byte
\* the memory holds.
InBuffer(img, r, c) == r * img.cols + (c - 1) < img.rows * img.cols

RightRows(img, r, n) ==
    LET outside == {c \in 1..n : ~InBuffer(img, r, c)}
    IN  {[c \in 1..n |-> IF c \in outside THEN g[c] ELSE img.px[r * img.cols + c]] :
            g \in [outside -> Byte]}

ReadsOutside(img, r, n) == \E c \in 1..n : ~InBuffer(img, r, c)

(***************************************************************************)
(* Cost Matrix Builder and Direction Recorder                              *)
(***************************************************************************)
MATCH == 1
SKIP_LEFT == 2
SKIP_RIGHT == 3

\* Variant: the difference is not squared.
matchingCostAbs(z1, z2) == Abs(z1 - z2)

\* matchingCost = pow((z1 - z2), 2) / variance, in 1/variance units.  The
\* pixels are uint8; njit widens the operands to 64 bits before subtracting
\* and the square of the (possibly wrapped) difference is (z1 - z2)^2.
matchingCost(z1, z2) == (z1 - z2) * (z1 - z2)

\* Variant: the occlusion cost is subtracted.
SkipCostMinus(prev, occ) == prev - occ

\* costMatrix[i - 1][j] + occlusionCost, costMatrix[i][j - 1] + occlusionCost
SkipCost(prev, occ) == prev + occ

\* Variant: the match is tested before the right skip.
DirectionTagMatchFirst(old, minimum, min1, min2, min3) ==
    IF minimum = min1 THEN MATCH
    ELSE IF minimum = min3 THEN SKIP_RIGHT
    ELSE IF minimum = min2 THEN SKIP_LEFT
    ELSE old

\* The if / elif chain that records the direction; the else branch only
\* prints and leaves the cell at the 1 of np.ones.
DirectionTag(old, minimum, min1, min2, min3) ==
    IF minimum = min3 THEN SKIP_RIGHT
    ELSE IF minimum = min1 THEN MATCH
    ELSE IF minimum = min2 THEN SKIP_LEFT
    ELSE old

\* np.zeros / np.ones of shape (columnCount + 1, columnCount + 1), then the
\* loop that sets column 0 and row 0 to i * occlusionCost.
InitMatrices(n, occ) ==
    [cost |-> [a \in 0..n |-> [b \in 0..n |->
                  IF b = 0 THEN a * occ ELSE IF a = 0 THEN b * occ ELSE 0]],
     dir  |-> [a \in 0..n |-> [b \in 0..n |-> 1]]]

\* The body of the inner loop for cell (a, b).
FillCell(m, lrow, rrow, occ, a, b) ==
    LET min1 == m.cost[a - 1][b - 1] + matchingCost(lrow[a], rrow[b])
        min2 == SkipCost(m.cost[a - 1][b], occ)
        min3 == SkipCost(m.cost[a][b - 1], occ)
        minimum == Min3(min1, min2, min3)
    IN  [cost |-> [m.cost EXCEPT ![a][b] = minimum],
         dir  |-> [m.dir EXCEPT ![a][b] =
                      DirectionTag(m.dir[a][b], minimum, min1, min2, min3)]]

\* for i in range(1, columnCount + 1): for j in range(1, columnCount + 1)
RECURSIVE FillFrom(_, _, _, _, _, _)
FillFrom(m, lrow, rrow, occ, a, b) ==
    LET n == Len(lrow) IN
    IF a > n THEN m
    ELSE IF b > n THEN FillFrom(m, lrow, rrow, occ, a + 1, 1)
    ELSE FillFrom(FillCell(m, lrow, rrow, occ, a, b), lrow, rrow, occ, a, b + 1)

BuildMatrices(lrow, rrow, occ) ==
    FillFrom(InitMatrices(Len(lrow), occ), lrow, rrow, occ, 1, 1)

(***************************************************************************)
(* Backward traversal and disparity encoding                               *)
(***************************************************************************)
\* disparity = abs(i - j) * 10 + 128
Disparity(a, b) == Abs(a - b) * 10 + 128

\* Variant: the right skip forgets j -= 1.
NextCursorStuck(tag, a, b) ==
    IF tag = MATCH THEN <<a - 1, b - 1>>
    ELSE IF tag = SKIP_LEFT THEN <<a - 1, b>>
    ELSE <<a, b>>

\* The cursor after one iteration of the while loop; on a tag outside
\* {1, 2, 3} the loop body only prints, and the cursor stays.
NextCursor(tag, a, b) ==
    IF tag = MATCH THEN <<a - 1, b - 1>>
    ELSE IF tag = SKIP_LEFT THEN <<a - 1, b>>
    ELSE IF tag = SKIP_RIGHT THEN <<a, b - 1>>
    ELSE <<a, b>>

\* The columns written for the matched pair (a, b): leftDisparityMap[rowNo][i]
\* and rightDisparityMap[rowNo][j].
LeftColumn(a, b) == a

\* Variant: only the right map is indexed from 0.
RightColumnFromZero(a, b) == b - 1

RightColumn(a, b) == b

\* map[r][c] = v on a map of width cols without bounds checking: the store
\* goes to address r * cols + c of the flat buffer, which for c = cols is
\* column 0 of row r + 1; past the last row it leaves the map's buffer and
\* the map keeps its contents.
Store(map, cols, r, c, v) ==
    LET a == r * cols + c IN
    IF a < Len(map) THEN [map EXCEPT ![a + 1] = v] ELSE map

StoresOutside(map, cols, r, c) == r * cols + c >= Len(map)

(***************************************************************************)
(* Normalisation                                                           *)
(***************************************************************************)
\* floor(log2(a / b)) for integers a, b >= 1
RECURSIVE FloorLog2(_, _)
FloorLog2(a, b) ==
    IF a >= 2 * b THEN FloorLog2(a, 2 * b) + 1
    ELSE IF a < b THEN FloorLog2(2 * a, b) - 1
    ELSE 0

\* (a * 2^s) % m
RECURSIVE ShiftMod(_, _, _)
ShiftMod(a, s, m) == IF s = 0 THEN a % m ELSE ShiftMod((2 * a) % m, s - 1, m)

RECURSIVE Pow2(_)
Pow2(n) == IF n = 0 THEN 1 ELSE 2 * Pow2(n - 1)

\* 255.0 / mx in float64 is f = M / 2^s, M the integer nearest to
\* 255 * 2^s / mx (ties to even) and s = 52 - floor(log2(255 / mx)).  The
\* rounding error of the factor, as the integer M * mx - 255 * 2^s.
FactorError(mx) ==
    LET s == 52 - FloorLog2(255, mx)
        r2 == ShiftMod(255, s, 2 * mx)
        r == r2 % mx
        up == 2 * r > mx \/ (2 * r = mx /\ r2 >= mx)
    IN  IF up THEN mx - r ELSE -r

\* map *= 255.0 / map.max(): the element v times the rounded factor, rounded
\* to float64 again.  The product is kept as its integer part and whether it
\* is that integer.  When mx does not divide v * 255 the roundings cannot
\* reach the next integer; when it does, the exact product lies d / 2^s off
\* the integer q and is rounded to the nearest float64, whose spacing is ulp
\* above q and, for q a power of 2, ulp / 2 below it.
Rescale(v, mx) ==
    LET q == (v * 255) \div mx
        u == FloorLog2(255, mx)
        d == (v * FactorError(mx)) \div mx
        t == FloorLog2(q, 1)
        ulp == Pow2(t - u)
        below == IF q = Pow2(t) THEN ulp ELSE 2 * ulp
    IN  IF v = 0 THEN [whole |-> 0, exact |-> TRUE]
        ELSE IF (v * 255) % mx # 0 THEN [whole |-> q, exact |-> FALSE]
        ELSE IF d < 0 /\ 4 * (-d) > below THEN [whole |-> q - 1, exact |-> FALSE]
        ELSE [whole |-> q, exact |-> (d < 0 \/ 2 * d <= ulp)]

\* The map after the in-place rescale: float64 elements.
Scaled(map) == LET mx == SeqMax(map) IN [k \in 1..Len(map) |-> Rescale(map[k], mx)]

\* Variant: astype(np.int8), a signed byte.
AsInt8(x) ==
    LET t == x.whole % 256 IN IF t > 127 THEN t - 256 ELSE t

\* astype(np.uint8) of a scaled element: truncation, and the low byte of the
\* truncated value.
AsUint8(x) == x.whole % 256

Finalized(map) == [k \in 1..Len(map) |-> AsUint8(Scaled(map)[k])]

(***************************************************************************)
(* createDisparityMap as a function of its arguments, for arguments whose  *)
(* reads stay in the buffer (stores that leave the buffer are lost, no     *)
(* access faults)                                                          *)
(***************************************************************************)
\* The while loop from cursor (a, b) on maps lm, rm.
RECURSIVE TraceRow(_, _, _, _, _, _, _)
TraceRow(dir, cols, r, a, b, lm, rm) ==
    IF a = 0 \/ b = 0 THEN <<lm, rm>>
    ELSE LET tag == dir[a][b]
             nc == NextCursor(tag, a, b)
         IN  IF tag = MATCH
             THEN TraceRow(dir, cols, r, nc[1], nc[2],
                           Store(lm, cols, r, LeftColumn(a, b), Disparity(a, b)),
                           Store(rm, cols, r, RightColumn(a, b), Disparity(a, b)))
             ELSE TraceRow(dir, cols, r, nc[1], nc[2], lm, rm)

\* The for loop over the rows from row r on.
RECURSIVE RunRows(_, _, _, _, _, _)
RunRows(left, right, occ, r, lm, rm) ==
    IF r >= left.rows THEN <<lm, rm>>
    ELSE LET m == BuildMatrices(LeftRowOf(left, r), RightRowOf(right, r, left.cols), occ)
             t == TraceRow(m.dir, left.cols, r, left.cols, left.cols, lm, rm)
         IN  RunRows(left, right, occ, r + 1, t[1], t[2])

\* The returned pair of maps, or the error raised by the rescale.
Estimator(left, right, occ) ==
    LET zero == [k \in 1..(left.rows * left.cols) |-> 0]
        raw == RunRows(left, right, occ, 0, zero, zero)
    IN  IF SeqMax(raw[1]) = 0 \/ SeqMax(raw[2]) = 0 THEN <<"ZeroDivisionError">>
        ELSE <<Finalized(raw[1]), Finalized(raw[2])>>

(***************************************************************************)
(* The state machine                                                       *)
(***************************************************************************)
\* go(): both maps are np.zeros(leftImage.shape), and createDisparityMap is
\* entered.
Init ==
    /\ leftImage \in Images
    /\ rightImage \in RightImagesFor(leftImage)
    /\ occlusionCost \in OcclusionCosts
    /\ pc = "build"
    /\ rowNo = 0
    /\ leftRow = <<>>
    /\ rightRow = <<>>
    /\ costMatrix = <<>>
    /\ directionMatrix = <<>>
    /\ i = 0
    /\ j = 0
    /\ leftDisparityMap = [k \in 1..(leftImage.rows * leftImage.cols) |-> 0]
    /\ rightDisparityMap = [k \in 1..(leftImage.rows * leftImage.cols) |-> 0]
    /\ emitted = <<>>
    /\ fault = "none"

\* One pass of the for loop up to the while loop: the rows are read, both
\* matrices are filled, the cursor is set to (columnCount, columnCount).
BuildRow ==
    /\ pc = "build"
    /\ rowNo < rowCount
    /\ \E rrow \in RightRows(rightImage, rowNo, columnCount) :
         LET lrow == LeftRowOf(leftImage, rowNo)
             m == BuildMatrices(lrow, rrow, occlusionCost)
         IN  /\ leftRow' = lrow
             /\ rightRow' = rrow
             /\ costMatrix' = m.cost
             /\ directionMatrix' = m.dir
    /\ i' = columnCount
    /\ j' = columnCount
    /\ emitted' = <<>>
    /\ pc' = "trace"
    /\ UNCHANGED <<leftImage, rightImage, occlusionCost, rowNo,
                   leftDisparityMap, rightDisparityMap, fault>>

\* The read of the right row leaves the right image's buffer and faults.
BuildFault ==
    /\ pc = "build"
    /\ rowNo < rowCount
    /\ ReadsOutside(rightImage, rowNo, columnCount)
    /\ pc' = "fault"
    /\ fault' = "OutOfBounds"
    /\ UNCHANGED <<leftImage, rightImage, occlusionCost, rowNo, leftRow, rightRow,
                   costMatrix, directionMatrix, i, j, leftDisparityMap,
                   rightDisparityMap, emitted>>

InLoop == pc = "trace" /\ i # 0 /\ j # 0

\* while-loop iteration on a MATCH cell: both maps are written, the cursor
\* moves diagonally.
TraceMatch ==
    /\ InLoop
    /\ directionMatrix[i][j] = MATCH
    /\ leftDisparityMap' =
          Store(leftDisparityMap, columnCount, rowNo, LeftColumn(i, j), Disparity(i, j))
    /\ rightDisparityMap' =
          Store(rightDisparityMap, columnCount, rowNo, RightColumn(i, j), Disparity(i, j))
    /\ emitted' = Append(emitted, <<i, j>>)
    /\ i' = NextCursor(directionMatrix[i][j], i, j)[1]
    /\ j' = NextCursor(directionMatrix[i][j], i, j)[2]
    /\ UNCHANGED <<leftImage, rightImage, occlusionCost, pc, rowNo, leftRow,
                   rightRow, costMatrix, directionMatrix, fault>>

\* A store of a MATCH iteration leaves the map's buffer and faults.  The
\* left store comes first: it has been done when only the right one leaves
\* the buffer.
TraceMatchFault ==
    /\ InLoop
    /\ directionMatrix[i][j] = MATCH
    /\ \/ StoresOutside(leftDisparityMap, columnCount, rowNo, LeftColumn(i, j))
       \/ StoresOutside(rightDisparityMap, columnCount, rowNo, RightColumn(i, j))
    /\ leftDisparityMap' =
          Store(leftDisparityMap, columnCount, rowNo, LeftColumn(i, j), Disparity(i, j))
    /\ pc' = "fault"
    /\ fault' = "OutOfBounds"
    /\ UNCHANGED <<leftImage, rightImage, occlusionCost, rowNo, leftRow, rightRow,
                   costMatrix, directionMatrix, i, j, rightDisparityMap, emitted>>

\* while-loop iteration on a cell that is not MATCH: SKIP_LEFT, SKIP_RIGHT,
\* or the printing else branch.
TraceSkipLeft ==
    /\ InLoop
    /\ directionMatrix[i][j] = SKIP_LEFT
    /\ i' = NextCursor(directionMatrix[i][j], i, j)[1]
    /\ j' = NextCursor(directionMatrix[i][j], i, j)[2]
    /\ UNCHANGED <<leftImage, rightImage, occlusionCost, pc, rowNo, leftRow,
                   rightRow, costMatrix, directionMatrix, leftDisparityMap,
                   rightDisparityMap, emitted, fault>>

TraceSkipRight ==
    /\ InLoop
    /\ directionMatrix[i][j] \notin {MATCH, SKIP_LEFT}
    /\ i' = NextCursor(directionMatrix[i][j], i, j)[1]
    /\ j' = NextCursor(directionMatrix[i][j], i, j)[2]
    /\ UNCHANGED <<leftImage, rightImage, occlusionCost, pc, rowNo, leftRow,
                   rightRow, costMatrix, directionMatrix, leftDisparityMap,
                   rightDisparityMap, emitted, fault>>

\* The while condition fails: the for loop goes to the next row, or ends.
EndRow ==
    /\ pc = "trace"
    /\ (i = 0 \/ j = 0)
    /\ rowNo' = rowNo + 1
    /\ pc' = IF rowNo + 1 < rowCount THEN "build" ELSE "finalize"
    /\ UNCHANGED <<leftImage, rightImage, occlusionCost, leftRow, rightRow,
                   costMatrix, directionMatrix, i, j, leftDisparityMap,
                   rightDisparityMap, emitted, fault>>

\* Both maps are rescaled by 255.0 / max and converted to uint8.
Finalize ==
    /\ pc = "finalize"
    /\ SeqMax(leftDisparityMap) # 0
    /\ SeqMax(rightDisparityMap) # 0
    /\ leftDisparityMap' = Finalized(leftDisparityMap)
    /\ rightDisparityMap' = Finalized(rightDisparityMap)
    /\ pc' = "done"
    /\ UNCHANGED <<leftImage, rightImage, occlusionCost, rowNo, leftRow, rightRow,
                   costMatrix, directionMatrix, i, j, emitted, fault>>

\* 255.0 / map.max() with a maximum of 0: compiled code raises
\* ZeroDivisionError and nothing is returned.  When it is the right map's
\* division that raises, the left map has been rescaled in place.
FinalizeDivZero ==
    /\ pc = "finalize"
    /\ (SeqMax(leftDisparityMap) = 0 \/ SeqMax(rightDisparityMap) = 0)
    /\ leftDisparityMap' =
          IF SeqMax(leftDisparityMap) = 0 THEN leftDisparityMap
          ELSE Scaled(leftDisparityMap)
    /\ pc' = "fault"
    /\ fault' = "ZeroDivisionError"
    /\ UNCHANGED <<leftImage, rightImage, occlusionCost, rowNo, leftRow, rightRow,
                   costMatrix, directionMatrix, i, j, rightDisparityMap, emitted>>

Next ==
    \/ BuildRow
    \/ BuildFault
    \/ TraceMatch
    \/ TraceMatchFault
    \/ TraceSkipLeft
    \/ TraceSkipRight
    \/ EndRow
    \/ Finalize
    \/ FinalizeDivZero

Spec == Init /\ [][Next]_vars

\* The while loop is sequential code: an iteration, or the exit, that is
\* enabled is eventually taken.
TraceStep == TraceMatch \/ TraceSkipLeft \/ TraceSkipRight \/ EndRow

FairSpec == Spec /\ WF_vars(TraceStep)

(***************************************************************************)
(* Properties                                                              *)
(***************************************************************************)
\* The state right after BuildRow: both matrices of row rowNo are filled and
\* the traversal has not moved.
JustBuilt == pc = "trace" /\ i = columnCount /\ j = columnCount /\ emitted = <<>>

N == columnCount

\* The three candidates of cell (a, b), recomputed from a filled cost matrix.
Candidates(cost, lrow, rrow, occ, a, b) ==
    <<cost[a - 1][b - 1] + (lrow[a] - rrow[b]) * (lrow[a] - rrow[b]),
      cost[a - 1][b] + occ,
      cost[a][b - 1] + occ>>

AllCells(map, v) == \A k \in 1..Len(map) : map[k] = v

\* Both images are the same constant image.
ConstantIdentical ==
    /\ leftImage = rightImage
    /\ \A k \in 1..Len(leftImage.px) : leftImage.px[k] = leftImage.px[1]

\* Alignments of the first a left pixels with the first b right pixels: the
\* matched left pixels A and right pixels B, paired in increasing order.
Alignments(a, b) ==
    {m \in (SUBSET (1..a)) \X (SUBSET (1..b)) : Cardinality(m[1]) = Cardinality(m[2])}

SetMin(S) == CHOOSE x \in S : \A y \in S : x <= y

RECURSIVE PairedCost(_, _, _, _)
PairedCost(A, B, lrow, rrow) ==
    IF A = {} THEN 0
    ELSE LET x == SetMin(A)
             y == SetMin(B)
         IN  (lrow[x] - rrow[y]) * (lrow[x] - rrow[y])
                 + PairedCost(A \ {x}, B \ {y}, lrow, rrow)

AlignmentCost(m, a, b, lrow, rrow, occ) ==
    PairedCost(m[1], m[2], lrow, rrow) + (a + b - 2 * Cardinality(m[1])) * occ

MinAlignmentCost(a, b, lrow, rrow, occ) ==
    SetMin({AlignmentCost(m, a, b, lrow, rrow, occ) : m \in Alignments(a, b)})

\* Some cell the traversal of this row visits from (a, b) on has two
\* candidates at the minimum.
RECURSIVE PathTie(_, _, _, _, _, _)
PathTie(m, lrow, rrow, occ, a, b) ==
    IF a = 0 \/ b = 0 THEN FALSE
    ELSE LET c == Candidates(m.cost, lrow, rrow, occ, a, b)
             mn == Min3(c[1], c[2], c[3])
             nc == NextCursor(m.dir[a][b], a, b)
         IN  \/ Cardinality({k \in 1..3 : c[k] = mn}) > 1
             \/ PathTie(m, lrow, rrow, occ, nc[1], nc[2])

NoTieOnPath(left, right, occ) ==
    \A r \in 0..(left.rows - 1) :
        LET lrow == LeftRowOf(left, r)
            rrow == RightRowOf(right, r, left.cols)
        IN  ~PathTie(BuildMatrices(lrow, rrow, occ), lrow, rrow, occ, left.cols, left.cols)

StrictlyDecreasing(pairs) ==
    \A k \in 1..(Len(pairs) - 1) :
        pairs[k + 1][1] < pairs[k][1] /\ pairs[k + 1][2] < pairs[k][2]

\* C1: every store of a matched pair of row rowNo goes to a column 0..N-1 of
\* row rowNo, so to no other row and to no place outside the map.
C1_WritesStayInRow ==
    (InLoop /\ directionMatrix[i][j] = MATCH)
        => /\ LeftColumn(i, j) \in 0..(columnCount - 1)
           /\ RightColumn(i, j) \in 0..(columnCount - 1)

\* C2: a map whose maximum is 0 at finalize time is finalized to an all-zero
\* map; the rescale never ends in a division by zero.
C2_ZeroMaxGivesZeroMap ==
    SameShape(leftImage, rightImage) => ~(pc = "fault" /\ fault = "ZeroDivisionError")

\* C3: for equal-shaped inputs every element of both returned maps is an
\* integer in 0..255.
C3_RangeInvariant ==
    (pc = "done" /\ SameShape(leftImage, rightImage))
        => /\ \A k \in 1..Len(leftDisparityMap) : leftDisparityMap[k] \in 0..255
           /\ \A k \in 1..Len(rightDisparityMap) : rightDisparityMap[k] \in 0..255

\* A run returned maps holding 255 and a value strictly between 0 and 255.
C3_Witness ==
    /\ pc = "done"
    /\ SameShape(leftImage, rightImage)
    /\ \E k \in 1..Len(leftDisparityMap) : leftDisparityMap[k] = 255
    /\ \E k \in 1..Len(leftDisparityMap) :
           leftDisparityMap[k] > 0 /\ leftDisparityMap[k] < 255

\* C4: once a row's cost matrix is filled, every cell (a, b) holds the least
\* cost of an alignment of the first a left with the first b right pixels,
\* and row 0 and column 0 hold a * occlusionCost.
C4_CostIsMinAlignment ==
    JustBuilt =>
        \A a \in 0..N :
            /\ costMatrix[a][0] = a * occlusionCost
            /\ costMatrix[0][a] = a * occlusionCost
            /\ \A b \in 0..N :
                   costMatrix[a][b] =
                       MinAlignmentCost(a, b, leftRow, rightRow, occlusionCost)

\* A filled matrix of a row of 3 pixels whose best alignment both matches
\* and skips.
C4_Witness ==
    /\ JustBuilt
    /\ N = 3
    /\ costMatrix[N][N] > 0
    /\ costMatrix[N][N] < 2 * N * occlusionCost
    /\ costMatrix[N][N] <
           PairedCost(1..N, 1..N, leftRow, rightRow)

\* C5: every cell (a, b), 1 <= a, b <= N, holds the first of SKIP_RIGHT,
\* MATCH, SKIP_LEFT whose candidate equals the minimum of the three.
C5_TieBreakOrder ==
    JustBuilt =>
        \A a \in 1..N : \A b \in 1..N :
            LET c == Candidates(costMatrix, leftRow, rightRow, occlusionCost, a, b)
                mn == Min3(c[1], c[2], c[3])
            IN  /\ directionMatrix[a][b] \in {MATCH, SKIP_LEFT, SKIP_RIGHT}
                /\ directionMatrix[a][b] =
                       IF c[3] = mn THEN SKIP_RIGHT
                       ELSE IF c[1] = mn THEN MATCH
                       ELSE SKIP_LEFT

\* A matrix with a cell where right skip and match tie (tag 3) and a cell
\* where match and left skip tie below the right skip (tag 1).
C5_Witness ==
    /\ JustBuilt
    /\ \E a \in 1..N : \E b \in 1..N :
           LET c == Candidates(costMatrix, leftRow, rightRow, occlusionCost, a, b)
           IN  c[3] = c[1] /\ c[1] < c[2] /\ directionMatrix[a][b] = SKIP_RIGHT
    /\ \E a \in 1..N : \E b \in 1..N :
           LET c == Candidates(costMatrix, leftRow, rightRow, occlusionCost, a, b)
           IN  c[1] = c[2] /\ c[1] < c[3] /\ directionMatrix[a][b] = MATCH

\* C6: the backward traversal of every row ends, it ends with i = 0 or
\* j = 0, and the matched pairs it emits strictly decrease in both
\* coordinates.
C6_TracebackValid ==
    /\ [](StrictlyDecreasing(emitted))
    /\ []((pc \in {"build", "finalize", "done"} /\ rowNo > 0) => (i = 0 \/ j = 0))
    /\ ((pc = "trace") ~> (pc # "trace"))

\* A traversal that has ended after emitting two pairs, skipping in between.
C6_Witness ==
    /\ pc \in {"build", "finalize"}
    /\ rowNo > 0
    /\ Len(emitted) >= 2
    /\ emitted[1][1] # emitted[1][2]
    /\ (i = 0 \/ j = 0)

\* C7 as stated: the run on (right, left) returns the maps of the run on
\* (left, right), swapped (stated for inputs on which both runs return maps).
C7_SwapSymmetry ==
    (/\ pc = "done"
     /\ SameShape(leftImage, rightImage)
     /\ Len(Estimator(rightImage, leftImage, occlusionCost)) = 2)
        => Estimator(rightImage, leftImage, occlusionCost)
               = <<rightDisparityMap, leftDisparityMap>>

\* C7 amended: the same, for inputs on which no cell visited by a traversal
\* has two candidates at the minimum.
C7_SwapSymmetryNoTie ==
    (/\ pc = "done"
     /\ SameShape(leftImage, rightImage)
     /\ NoTieOnPath(leftImage, rightImage, occlusionCost))
        => Estimator(rightImage, leftImage, occlusionCost)
               = <<rightDisparityMap, leftDisparityMap>>

\* A completed run without a tie on its paths whose two maps differ.
C7_Witness ==
    /\ pc = "done"
    /\ SameShape(leftImage, rightImage)
    /\ NoTieOnPath(leftImage, rightImage, occlusionCost)
    /\ leftDisparityMap # rightDisparityMap
    /\ leftImage # rightImage

\* C8: the total cost C[N][N] of a row does not decrease when the occlusion
\* cost is raised.
C8_CostMonotone ==
    JustBuilt =>
        \A c \in OcclusionCosts :
            c >= occlusionCost =>
                BuildMatrices(leftRow, rightRow, c).cost[N][N] >= costMatrix[N][N]

\* A row of 3 pixels whose total cost strictly grows with a larger occlusion
\* cost.
C8_Witness ==
    /\ JustBuilt
    /\ N = 3
    /\ \E c \in OcclusionCosts :
           c > occlusionCost
             /\ BuildMatrices(leftRow, rightRow, c).cost[N][N] > costMatrix[N][N]

\* C9: for two identical constant images every pixel of both maps holds 128
\* before the rescale and 255 in the returned maps.
C9_ConstantImagesGive255 ==
    ConstantIdentical =>
        /\ pc = "finalize" => /\ AllCells(leftDisparityMap, 128)
                              /\ AllCells(rightDisparityMap, 128)
        /\ pc = "done" => /\ AllCells(leftDisparityMap, 255)
                          /\ AllCells(rightDisparityMap, 255)

\* C10: with input grids of different shapes no row is processed: no cost
\* matrix is built and no map cell is written.
C10_ShapeMismatchReported ==
    ~SameShape(leftImage, rightImage)
        => /\ costMatrix = <<>>
           /\ pc \notin {"trace", "finalize", "done"}
           /\ AllCells(leftDisparityMap, 0)
           /\ AllCells(rightDisparityMap, 0)

====
